---- MODULE Spec2Model ----
(***************************************************************************)
(* Model of scripts/add-all-profiles.py: the keyword classifier, the       *)
(* lifecycle-profile table, the record formatter and the script's run over *)
(* constants.ts (read, generate one record per material without a profile, *)
(* write back).                                                            *)
(*                                                                         *)
(* Text is modelled as text: names, descriptions, keyword lists, rule      *)
(* patterns and generated records are strings, and the string functions    *)
(* of the script (lower, split, strip, join, re.search, the f-string of    *)
(* format_profile) are computed character by character.                    *)
(***************************************************************************)
EXTENDS Integers, Sequences, FiniteSets, TLC

VARIABLES
    constants_ts,       \* the file constants.ts on disk
    table,              \* the module-level PROFILES dict the run consults
    materials,          \* list of {id, name, description, keywords}
    existing_profiles,  \* set of ids that already have a profile
    new_profiles,       \* list of generated record texts
    i,                  \* position of the "for mat in materials" loop
    mat_type,           \* result of the last classify_material call
    pc                  \* position of the script

vars == <<constants_ts, table, materials, existing_profiles, new_profiles,
          i, mat_type, pc>>

(***************************************************************************)
(* Bounds of the model.                                                    *)
(***************************************************************************)
MaxMaterials == 2
MaxKeywords == 2

(***************************************************************************)
(* Python string functions used by the script.                             *)
(***************************************************************************)
Char(s, k) == SubSeq(s, k, k)

UPPERCASE == "ABCDEFGHIJKLMNOPQRSTUVWXYZ"
LOWERCASE == "abcdefghijklmnopqrstuvwxyz"
DIGITS == "0123456789"
WHITESPACE == {" ", "\t", "\n"}

lower_char(c) ==
    IF \E k \in 1..Len(UPPERCASE) : Char(UPPERCASE, k) = c
    THEN Char(LOWERCASE, CHOOSE k \in 1..Len(UPPERCASE) : Char(UPPERCASE, k) = c)
    ELSE c

RECURSIVE lower(_)
lower(s) == IF s = "" THEN "" ELSE lower_char(Head(s)) \o lower(Tail(s))

RECURSIVE join(_, _)
join(sep, list) ==
    IF list = <<>> THEN ""
    ELSE IF Len(list) = 1 THEN list[1]
    ELSE list[1] \o sep \o join(sep, Tail(list))

find(s, sep) ==
    IF \E k \in 1..Len(s) : Char(s, k) = sep
    THEN CHOOSE k \in 1..Len(s) :
            Char(s, k) = sep /\ \A j \in 1..(k - 1) : Char(s, j) # sep
    ELSE 0

RECURSIVE split(_, _)
split(s, sep) ==
    LET k == find(s, sep)
    IN  IF k = 0 THEN <<s>>
        ELSE <<SubSeq(s, 1, k - 1)>> \o split(SubSeq(s, k + 1, Len(s)), sep)

RECURSIVE lstrip(_, _)
lstrip(s, chars) ==
    IF s # "" /\ Head(s) \in chars THEN lstrip(Tail(s), chars) ELSE s

RECURSIVE rstrip(_, _)
rstrip(s, chars) ==
    IF s # "" /\ Char(s, Len(s)) \in chars
    THEN rstrip(SubSeq(s, 1, Len(s) - 1), chars)
    ELSE s

strip(s, chars) == rstrip(lstrip(s, chars), chars)

RECURSIVE str(_)
str(n) ==
    IF n < 10 THEN Char(DIGITS, n + 1)
    ELSE str(n \div 10) \o Char(DIGITS, (n % 10) + 1)

(* re.search(pattern, text) for the patterns of this script: alternatives  *)
(* of literal characters separated by "|"; the search succeeds when one    *)
(* alternative occurs somewhere in the text.                               *)
occurs(word, text) ==
    \E k \in 1..(Len(text) - Len(word) + 1) :
        SubSeq(text, k, k + Len(word) - 1) = word

re_search(pattern, text) ==
    LET alternatives == split(pattern, "|")
    IN  \E a \in 1..Len(alternatives) : occurs(alternatives[a], text)

(***************************************************************************)
(* PROFILES: the dict literal, item by item in source order.  A dict       *)
(* literal keeps, for a key written twice, the last value.                 *)
(***************************************************************************)
PROFILES_items ==
  <<
    <<"timber", [
        raw |-> [impact |-> 1, confidence |-> "high"],
        manufacturing |-> [impact |-> 2, confidence |-> "high"],
        transport |-> [impact |-> 2, confidence |-> "medium"],
        installation |-> [impact |-> 2, confidence |-> "high"],
        inUse |-> [impact |-> 1, confidence |-> "high"],
        maintenance |-> [impact |-> 2, confidence |-> "medium"],
        endOfLife |-> [impact |-> 1, confidence |-> "high"]]>>,
    <<"ceramic", [
        raw |-> [impact |-> 2, confidence |-> "high"],
        manufacturing |-> [impact |-> 5, confidence |-> "high"],
        transport |-> [impact |-> 3, confidence |-> "medium"],
        installation |-> [impact |-> 2, confidence |-> "high"],
        inUse |-> [impact |-> 1, confidence |-> "high"],
        maintenance |-> [impact |-> 1, confidence |-> "high"],
        endOfLife |-> [impact |-> 2, confidence |-> "medium"]]>>,
    <<"metal", [
        raw |-> [impact |-> 5, confidence |-> "high"],
        manufacturing |-> [impact |-> 5, confidence |-> "high"],
        transport |-> [impact |-> 3, confidence |-> "medium"],
        installation |-> [impact |-> 2, confidence |-> "high"],
        inUse |-> [impact |-> 1, confidence |-> "high"],
        maintenance |-> [impact |-> 1, confidence |-> "high"],
        endOfLife |-> [impact |-> 1, confidence |-> "high"]]>>,
    <<"concrete", [
        raw |-> [impact |-> 3, confidence |-> "high"],
        manufacturing |-> [impact |-> 5, confidence |-> "high"],
        transport |-> [impact |-> 3, confidence |-> "medium"],
        installation |-> [impact |-> 3, confidence |-> "high"],
        inUse |-> [impact |-> 1, confidence |-> "high"],
        maintenance |-> [impact |-> 1, confidence |-> "high"],
        endOfLife |-> [impact |-> 3, confidence |-> "medium"]]>>,
    <<"glass", [
        raw |-> [impact |-> 3, confidence |-> "high"],
        manufacturing |-> [impact |-> 4, confidence |-> "high"],
        transport |-> [impact |-> 3, confidence |-> "medium"],
        installation |-> [impact |-> 2, confidence |-> "high"],
        inUse |-> [impact |-> 1, confidence |-> "high"],
        maintenance |-> [impact |-> 1, confidence |-> "high"],
        endOfLife |-> [impact |-> 3, confidence |-> "medium"]]>>,
    <<"plastic", [
        raw |-> [impact |-> 4, confidence |-> "high"],
        manufacturing |-> [impact |-> 4, confidence |-> "high"],
        transport |-> [impact |-> 2, confidence |-> "medium"],
        installation |-> [impact |-> 1, confidence |-> "high"],
        inUse |-> [impact |-> 1, confidence |-> "high"],
        maintenance |-> [impact |-> 1, confidence |-> "high"],
        endOfLife |-> [impact |-> 4, confidence |-> "low"]]>>,
    <<"earth", [
        raw |-> [impact |-> 1, confidence |-> "high"],
        manufacturing |-> [impact |-> 1, confidence |-> "high"],
        transport |-> [impact |-> 1, confidence |-> "high"],
        installation |-> [impact |-> 2, confidence |-> "medium"],
        inUse |-> [impact |-> 1, confidence |-> "high"],
        maintenance |-> [impact |-> 1, confidence |-> "high"],
        endOfLife |-> [impact |-> 1, confidence |-> "high"]]>>,
    <<"stone", [
        raw |-> [impact |-> 3, confidence |-> "high"],
        manufacturing |-> [impact |-> 3, confidence |-> "high"],
        transport |-> [impact |-> 4, confidence |-> "medium"],
        installation |-> [impact |-> 2, confidence |-> "high"],
        inUse |-> [impact |-> 1, confidence |-> "high"],
        maintenance |-> [impact |-> 1, confidence |-> "high"],
        endOfLife |-> [impact |-> 2, confidence |-> "medium"]]>>,
    <<"textile", [
        raw |-> [impact |-> 2, confidence |-> "medium"],
        manufacturing |-> [impact |-> 3, confidence |-> "medium"],
        transport |-> [impact |-> 2, confidence |-> "medium"],
        installation |-> [impact |-> 1, confidence |-> "high"],
        inUse |-> [impact |-> 1, confidence |-> "high"],
        maintenance |-> [impact |-> 2, confidence |-> "medium"],
        endOfLife |-> [impact |-> 2, confidence |-> "low"]]>>,
    <<"biobased", [
        raw |-> [impact |-> 1, confidence |-> "high"],
        manufacturing |-> [impact |-> 1, confidence |-> "high"],
        transport |-> [impact |-> 2, confidence |-> "medium"],
        installation |-> [impact |-> 2, confidence |-> "medium"],
        inUse |-> [impact |-> 1, confidence |-> "high"],
        maintenance |-> [impact |-> 1, confidence |-> "high"],
        endOfLife |-> [impact |-> 1, confidence |-> "high"]]>>,
    <<"paint", [
        raw |-> [impact |-> 3, confidence |-> "medium"],
        manufacturing |-> [impact |-> 3, confidence |-> "medium"],
        transport |-> [impact |-> 2, confidence |-> "medium"],
        installation |-> [impact |-> 2, confidence |-> "medium"],
        inUse |-> [impact |-> 1, confidence |-> "high"],
        maintenance |-> [impact |-> 2, confidence |-> "medium"],
        endOfLife |-> [impact |-> 2, confidence |-> "low"]]>>
  >>

(* Mutant: the entry of one category is missing from the table.            *)
PROFILES_without_paint ==
    [k \in {PROFILES_items[n][1] : n \in 1..Len(PROFILES_items)} \ {"paint"} |->
        PROFILES_items[CHOOSE n \in 1..Len(PROFILES_items) :
            PROFILES_items[n][1] = k][2]]

PROFILES ==
    [k \in {PROFILES_items[n][1] : n \in 1..Len(PROFILES_items)} |->
        PROFILES_items[CHOOSE n \in 1..Len(PROFILES_items) :
            /\ PROFILES_items[n][1] = k
            /\ \A m \in (n + 1)..Len(PROFILES_items) : PROFILES_items[m][1] # k][2]]

(***************************************************************************)
(* classify_material                                                       *)
(***************************************************************************)
(* The rule patterns, in source order.                                      *)
TIMBER_RE == "timber|wood|oak|bamboo|larch|cedar|plywood"
METAL_RE == "steel|aluminum|aluminium|metal|brass|copper|zinc"
CONCRETE_RE == "concrete|cement|microcement"
GLASS_RE == "glass|glazing"
CERAMIC_RE == "ceramic|terracotta|porcelain|clay|brick|tile"
PLASTIC_RE == "plastic|vinyl|upvc|composite|grp|pet|epoxy|resin"
BIOBASED_RE == "hemp|cork|mycelium|bio-based|biobased|wool|felt"
EARTH_RE == "earth|rammed|lime|plaster|render"
STONE_RE == "stone|marble|granite|slate|travertine"
TEXTILE_RE == "fabric|textile|carpet|leather|upholster"
PAINT_RE == "paint|emulsion"

(* Mutant: the text is not lowercased.                                     *)
material_text_not_lowered(name, desc, keywords) ==
    name \o " " \o desc \o " " \o join(" ", keywords)

(* Mutant: the keywords are joined without a separator.                    *)
material_text_keywords_unseparated(name, desc, keywords) ==
    lower(name \o " " \o desc \o " " \o join("", keywords))

material_text(name, desc, keywords) ==
    lower(name \o " " \o desc \o " " \o join(" ", keywords))

(* Mutant: no category is returned for a text no rule matches.             *)
default_unknown == "unknown"

default_category == "concrete"

(* Mutant: the glass rule is tested before the metal rule.                 *)
classify_material_glass_before_metal(name, desc, keywords) ==
    LET text == material_text(name, desc, keywords)
    IN  IF re_search(TIMBER_RE, text) THEN "timber"
        ELSE IF re_search(GLASS_RE, text) THEN "glass"
        ELSE IF re_search(METAL_RE, text) THEN "metal"
        ELSE IF re_search(CONCRETE_RE, text) THEN "concrete"
        ELSE IF re_search(CERAMIC_RE, text) THEN "ceramic"
        ELSE IF re_search(PLASTIC_RE, text) THEN "plastic"
        ELSE IF re_search(BIOBASED_RE, text) THEN "biobased"
        ELSE IF re_search(EARTH_RE, text) THEN "earth"
        ELSE IF re_search(STONE_RE, text) THEN "stone"
        ELSE IF re_search(TEXTILE_RE, text) THEN "textile"
        ELSE IF re_search(PAINT_RE, text) THEN "paint"
        ELSE default_category

classify_material(name, desc, keywords) ==
    LET text == material_text(name, desc, keywords)
    IN  IF re_search(TIMBER_RE, text) THEN "timber"
        ELSE IF re_search(METAL_RE, text) THEN "metal"
        ELSE IF re_search(CONCRETE_RE, text) THEN "concrete"
        ELSE IF re_search(GLASS_RE, text) THEN "glass"
        ELSE IF re_search(CERAMIC_RE, text) THEN "ceramic"
        ELSE IF re_search(PLASTIC_RE, text) THEN "plastic"
        ELSE IF re_search(BIOBASED_RE, text) THEN "biobased"
        ELSE IF re_search(EARTH_RE, text) THEN "earth"
        ELSE IF re_search(STONE_RE, text) THEN "stone"
        ELSE IF re_search(TEXTILE_RE, text) THEN "textile"
        ELSE IF re_search(PAINT_RE, text) THEN "paint"
        ELSE default_category

(***************************************************************************)
(* format_profile: the f-string, line by line.                             *)
(***************************************************************************)
phase_line(phase, rating) ==
    "    " \o phase \o ": { impact: " \o str(rating.impact)
           \o ", confidence: '" \o rating.confidence \o "' }"

(* Mutant: the maintenance line is filled from the inUse rating.           *)
format_profile_maintenance_from_inUse(mat_id, profile) ==
    "  '" \o mat_id \o "': {\n"
    \o phase_line("raw", profile.raw) \o ",\n"
    \o phase_line("manufacturing", profile.manufacturing) \o ",\n"
    \o phase_line("transport", profile.transport) \o ",\n"
    \o phase_line("installation", profile.installation) \o ",\n"
    \o phase_line("inUse", profile.inUse) \o ",\n"
    \o phase_line("maintenance", profile.inUse) \o ",\n"
    \o phase_line("endOfLife", profile.endOfLife) \o "\n"
    \o "  }"

format_profile(mat_id, profile) ==
    "  '" \o mat_id \o "': {\n"
    \o phase_line("raw", profile.raw) \o ",\n"
    \o phase_line("manufacturing", profile.manufacturing) \o ",\n"
    \o phase_line("transport", profile.transport) \o ",\n"
    \o phase_line("installation", profile.installation) \o ",\n"
    \o phase_line("inUse", profile.inUse) \o ",\n"
    \o phase_line("maintenance", profile.maintenance) \o ",\n"
    \o phase_line("endOfLife", profile.endOfLife) \o "\n"
    \o "  }"

(***************************************************************************)
(* The script body.  constants.ts is modelled by the parts the script's    *)
(* regular expressions extract from it:                                    *)
(*   has_palette  whether "export const MATERIAL_PALETTE ... [ ... ];"     *)
(*                is found,                                                *)
(*   palette      the entries the material pattern matches, each with the  *)
(*                captured id, name, description and keywords text,        *)
(*   profiles     the record blocks of MATERIAL_LIFECYCLE_PROFILES, each   *)
(*                laid out as format_profile lays it out.                  *)
(***************************************************************************)
parse_keywords(keywords_str) ==
    LET parts == split(keywords_str, ",")
    IN  [k \in 1..Len(parts) |-> strip(strip(parts[k], WHITESPACE), {"'", "\""})]

parse_material(entry) ==
    [id          |-> entry.id,
     name        |-> entry.name,
     description |-> entry.description,
     keywords    |-> parse_keywords(entry.keywords_str)]

(* r"'([^']+)':\s*\{" on a record block: the quoted key before ": {".      *)
profile_key(block) == split(block, "'")[2]

(* Mutant: the membership test of the loop is inverted.                    *)
needs_profile_inverted(mat, existing) == mat.id \in existing

needs_profile(mat, existing) == mat.id \notin existing

(* PROFILES[mat_type]: the value, or KeyError.                             *)
(* Mutant: a missing key falls back to another entry of the table.         *)
lookup_with_default(profiles, key) ==
    IF key \in DOMAIN profiles
    THEN [ok |-> TRUE, value |-> profiles[key]]
    ELSE [ok |-> TRUE, value |-> profiles[CHOOSE k \in DOMAIN profiles : TRUE]]

lookup(profiles, key) ==
    IF key \in DOMAIN profiles
    THEN [ok |-> TRUE, value |-> profiles[key]]
    ELSE [ok |-> FALSE, value |-> "KeyError"]

(* The two re.sub calls: the marker is put after the last record block of  *)
(* the file, and the new records are put after the marker.  Without a last *)
(* record block the first pattern does not match and nothing is inserted.  *)
insert_profiles(blocks, records) ==
    IF blocks # <<>> THEN blocks \o records ELSE blocks

ReadConstants ==
    /\ pc = "start"
    /\ constants_ts.has_palette
    /\ materials' = [k \in 1..Len(constants_ts.palette) |->
                        parse_material(constants_ts.palette[k])]
    /\ existing_profiles' = {profile_key(constants_ts.profiles[k]) :
                                k \in 1..Len(constants_ts.profiles)}
    /\ new_profiles' = <<>>
    /\ i' = 1
    /\ pc' = "loop"
    /\ UNCHANGED <<constants_ts, table, mat_type>>

PaletteNotFound ==
    /\ pc = "start"
    /\ ~constants_ts.has_palette
    /\ pc' = "exit"
    /\ UNCHANGED <<constants_ts, table, materials, existing_profiles,
                   new_profiles, i, mat_type>>

SkipExisting ==
    /\ pc = "loop"
    /\ i <= Len(materials)
    /\ ~needs_profile(materials[i], existing_profiles)
    /\ i' = i + 1
    /\ UNCHANGED <<constants_ts, table, materials, existing_profiles,
                   new_profiles, mat_type, pc>>

Classify ==
    /\ pc = "loop"
    /\ i <= Len(materials)
    /\ needs_profile(materials[i], existing_profiles)
    /\ mat_type' = classify_material(materials[i].name,
                                     materials[i].description,
                                     materials[i].keywords)
    /\ pc' = "lookup"
    /\ UNCHANGED <<constants_ts, table, materials, existing_profiles,
                   new_profiles, i>>

AppendProfile ==
    /\ pc = "lookup"
    /\ lookup(table, mat_type).ok
    /\ new_profiles' = Append(new_profiles,
                              format_profile(materials[i].id,
                                             lookup(table, mat_type).value))
    /\ i' = i + 1
    /\ pc' = "loop"
    /\ UNCHANGED <<constants_ts, table, materials, existing_profiles, mat_type>>

RaiseKeyError ==
    /\ pc = "lookup"
    /\ ~lookup(table, mat_type).ok
    /\ pc' = "error"
    /\ UNCHANGED <<constants_ts, table, materials, existing_profiles,
                   new_profiles, i, mat_type>>

WriteBack ==
    /\ pc = "loop"
    /\ i > Len(materials)
    /\ constants_ts' = [constants_ts EXCEPT
                           !.profiles = insert_profiles(@, new_profiles)]
    /\ pc' = "done"
    /\ UNCHANGED <<table, materials, existing_profiles, new_profiles, i, mat_type>>

Next ==
    \/ ReadConstants
    \/ PaletteNotFound
    \/ SkipExisting
    \/ Classify
    \/ AppendProfile
    \/ WriteBack

(***************************************************************************)
(* Inputs.                                                                 *)
(***************************************************************************)
RECURSIVE SeqsUpTo(_, _)
SeqsUpTo(S, n) ==
    IF n = 0 THEN {<<>>}
    ELSE LET shorter == SeqsUpTo(S, n - 1)
         IN  shorter \cup {Append(s, x) : s \in shorter, x \in S}

Entry(id, name, description, keywords_str) ==
    [id |-> id, name |-> name, description |-> description,
     keywords_str |-> keywords_str]

PaletteEntries ==
    { Entry("oak-floor", "Oak Flooring", "solid oak boards", "'wood', 'flooring'"),
      Entry("glass-partition", "steel-framed glass partition",
            "glass panels in a steel frame", "'glazing'"),
      Entry("widget", "widget", "", ""),
      Entry("wool-felt", "Wool Felt", "acoustic panel", "\"felt\",\"acoustic\""),
      Entry("carpet-tile", "Carpet", "loop pile", "'flooring'"),
      Entry("emulsion", "Emulsion", "wall finish", " 'paint' ") }

ExistingChoices ==
    { <<>>,
      <<"oak-floor">>,
      <<"widget", "legacy-brick">>,
      <<"glass-partition", "emulsion", "oak-floor">> }

existing_blocks(ids) ==
    [k \in 1..Len(ids) |-> format_profile(ids[k], PROFILES["concrete"])]

File(palette, ids) ==
    [has_palette |-> TRUE, palette |-> palette, profiles |-> existing_blocks(ids)]

NoPaletteFile ==
    [has_palette |-> FALSE, palette |-> <<>>, profiles |-> <<>>]

Files ==
    { File(p, e) : p \in SeqsUpTo(PaletteEntries, MaxMaterials), e \in ExistingChoices }
    \cup {NoPaletteFile}

InitWith(files, tables) ==
    /\ constants_ts \in files
    /\ table \in tables
    /\ materials = <<>>
    /\ existing_profiles = {}
    /\ new_profiles = <<>>
    /\ i = 0
    /\ mat_type = "unset"
    /\ pc = "start"

Init == InitWith(Files, {PROFILES})

Spec == Init /\ [][Next]_vars

(***************************************************************************)
(* SpecInputs: runs over a file with one material, the material's name,    *)
(* description and keywords drawn from a wider set: every alternative of   *)
(* every rule pattern as a name of its own, mixed-case names, and keyword  *)
(* lists of up to MaxKeywords keywords.                                    *)
(***************************************************************************)
RULE_PATTERNS ==
    <<TIMBER_RE, METAL_RE, CONCRETE_RE, GLASS_RE, CERAMIC_RE, PLASTIC_RE,
      BIOBASED_RE, EARTH_RE, STONE_RE, TEXTILE_RE, PAINT_RE>>

alternatives_of(pattern) ==
    {split(pattern, "|")[k] : k \in 1..Len(split(pattern, "|"))}

RuleKeywords ==
    UNION {alternatives_of(RULE_PATTERNS[r]) : r \in 1..Len(RULE_PATTERNS)}

InputNames ==
    RuleKeywords \cup
    {"widget", "Oak Flooring", "steel-framed glass partition", "OAK",
     "Stainless Steel", "Limestone", "Carpet Tile"}

InputKeywords == {"wood", "flooring", "terra", "cotta", "Glazing"}

(* A keyword array as constants.ts writes it: 'a', 'b'.                    *)
keywords_text(keywords) ==
    join(", ", [k \in 1..Len(keywords) |-> "'" \o keywords[k] \o "'"])

InputEntries ==
    { Entry("m1", n, "", "") : n \in InputNames }
    \cup
    { Entry("m1", n, d, keywords_text(ks)) :
        n \in {"widget", "Oak Flooring", "steel-framed glass partition"},
        d \in {"", "solid oak boards", "Glass and STEEL"},
        ks \in SeqsUpTo(InputKeywords, MaxKeywords) }

InputFiles ==
    { File(<<e>>, <<>>) : e \in InputEntries }
    \cup { File(<<Entry("m1", n, "", "")>>, <<"m1">>) : n \in InputNames }
    \cup {NoPaletteFile}

InitInputs == InitWith(InputFiles, {PROFILES})

SpecInputs == InitInputs /\ [][Next]_vars

(***************************************************************************)
(* SpecTable: the run with the table as a maintainer may leave it: the     *)
(* PROFILES of the source, or PROFILES with one category's entry removed   *)
(* (a category the palette entries reach first, second or not at all).     *)
(* Line 200 is the only place of the script that reads the table.          *)
(***************************************************************************)
without(profiles, key) == [k \in DOMAIN profiles \ {key} |-> profiles[k]]

Tables ==
    {PROFILES} \cup
    {without(PROFILES, c) : c \in {"timber", "concrete", "paint", "stone"}}

InitTable == InitWith(Files, Tables)

NextTable == Next \/ RaiseKeyError

SpecTable == InitTable /\ [][NextTable]_vars

(***************************************************************************)
(* Properties.                                                             *)
(***************************************************************************)

(* The material the loop is at.                                            *)
current == materials[i]

current_text ==
    material_text(current.name, current.description, current.keywords)

(* The category each rule returns.                                         *)
RULE_CATEGORIES ==
    <<"timber", "metal", "concrete", "glass", "ceramic", "plastic",
      "biobased", "earth", "stone", "textile", "paint">>

ReturnCategories ==
    {RULE_CATEGORIES[r] : r \in 1..Len(RULE_CATEGORIES)} \cup {default_category}

entries_for(key) ==
    Cardinality({n \in 1..Len(PROFILES_items) : PROFILES_items[n][1] = key})

(* C1: every category classify_material can return (the eleven rule        *)
(* categories and the default) has exactly one entry in PROFILES, and the  *)
(* category a call returned is never absent from PROFILES.                 *)
C1_EveryCategoryHasOneProfile ==
    /\ \A c \in ReturnCategories : c \in DOMAIN PROFILES /\ entries_for(c) = 1
    /\ mat_type # "unset" =>
          mat_type \in DOMAIN PROFILES /\ entries_for(mat_type) = 1

C1_Witness == pc = "lookup" /\ mat_type = "textile"

(* The rule order the claim names, and the rules of that order whose       *)
(* pattern occurs in a text.                                               *)
ClaimedOrder ==
    <<"timber", "metal", "concrete", "glass", "ceramic", "plastic",
      "biobased", "earth", "stone", "textile", "paint">>

pattern_of(category) ==
    RULE_PATTERNS[CHOOSE r \in 1..Len(RULE_CATEGORIES) : RULE_CATEGORIES[r] = category]

matching(text) ==
    {k \in 1..Len(ClaimedOrder) : re_search(pattern_of(ClaimedOrder[k]), text)}

earliest(M) == CHOOSE k \in M : \A j \in M : k <= j

(* C2: the call returns the category of the earliest rule, in the order    *)
(* timber, metal, concrete, glass, ceramic, plastic, biobased, earth,      *)
(* stone, textile, paint, whose pattern occurs in the text.                *)
C2_FirstMatchWins ==
    pc = "lookup" =>
        (matching(current_text) # {} =>
            mat_type = ClaimedOrder[earliest(matching(current_text))])

C2_Witness ==
    /\ pc = "lookup"
    /\ current.name = "steel-framed glass partition"
    /\ occurs("steel", current_text) /\ occurs("glass", current_text)
    /\ {2, 4} \subseteq matching(current_text)
    /\ mat_type = "metal"

(* C3: every call returns exactly one category and never errors; when no   *)
(* rule's pattern occurs in the text it returns "concrete".                *)
C3_TotalWithDefault ==
    /\ pc # "error"
    /\ pc = "lookup" =>
          /\ mat_type \in {ClaimedOrder[k] : k \in 1..Len(ClaimedOrder)}
          /\ matching(current_text) = {} => mat_type = "concrete"

C3_Witness ==
    /\ pc = "lookup"
    /\ current.name = "widget"
    /\ current.description = ""
    /\ current.keywords = <<"">>
    /\ matching(current_text) = {}
    /\ mat_type = "concrete"

(* Reading a record text back: the key between the first quotes, and per   *)
(* phase line the phase name, the impact digit and the quoted confidence.  *)
digit_value(d) ==
    IF \E n \in 0..9 : str(n) = d THEN CHOOSE n \in 0..9 : str(n) = d ELSE -1

read_phase(line) ==
    LET words == split(lstrip(line, {" "}), " ")
    IN  [phase      |-> rstrip(words[1], {":"}),
         impact     |-> digit_value(rstrip(words[4], {","})),
         confidence |-> strip(rstrip(words[6], {","}), {"'"})]

read_record(record) ==
    LET lines == split(record, "\n")
    IN  [key    |-> split(lines[1], "'")[2],
         phases |-> [k \in 1..(Len(lines) - 2) |-> read_phase(lines[k + 1])]]

PhaseOrder ==
    <<"raw", "manufacturing", "transport", "installation", "inUse",
      "maintenance", "endOfLife">>

rating_of(profile, phase) ==
    CASE phase = "raw" -> profile.raw
      [] phase = "manufacturing" -> profile.manufacturing
      [] phase = "transport" -> profile.transport
      [] phase = "installation" -> profile.installation
      [] phase = "inUse" -> profile.inUse
      [] phase = "maintenance" -> profile.maintenance
      [] phase = "endOfLife" -> profile.endOfLife

(* The materials among the first n that have no existing profile.          *)
needing(n) ==
    SelectSeq(SubSeq(materials, 1, n), LAMBDA m : m.id \notin existing_profiles)

(* How many materials the loop has passed.                                 *)
passed == IF pc = "done" THEN Len(materials) ELSE i - 1

(* C4: the record format_profile produces from a category's profile is     *)
(* keyed by the material id and holds exactly the seven phases in the      *)
(* order raw, manufacturing, transport, installation, inUse, maintenance,  *)
(* endOfLife, each with an impact in 1..5 and a confidence in {high,       *)
(* medium, low} equal to that phase's values in the profile.               *)
C4_RecordMatchesProfile ==
    (pc \in {"loop", "done"} /\ new_profiles # <<>>) =>
        LET record == read_record(new_profiles[Len(new_profiles)])
            source == needing(passed)[Len(needing(passed))]
        IN  /\ record.key = source.id
            /\ Len(record.phases) = Len(PhaseOrder)
            /\ \A k \in 1..Len(PhaseOrder) :
                  /\ record.phases[k].phase = PhaseOrder[k]
                  /\ record.phases[k].impact \in 1..5
                  /\ record.phases[k].confidence \in {"high", "medium", "low"}
                  /\ record.phases[k].impact =
                        rating_of(PROFILES[mat_type], PhaseOrder[k]).impact
                  /\ record.phases[k].confidence =
                        rating_of(PROFILES[mat_type], PhaseOrder[k]).confidence

C4_Witness ==
    /\ pc = "loop"
    /\ mat_type = "plastic"
    /\ Len(new_profiles) = 1
    /\ read_record(new_profiles[1]).key = "m1"
    /\ read_record(new_profiles[1]).phases[7] =
          [phase |-> "endOfLife", impact |-> 4, confidence |-> "low"]

(* C5: the generation loop produces one record per material whose id is    *)
(* not among the existing profiles and none for the others; each record is *)
(* keyed by its material's id and carries the profile of the category      *)
(* classify_material assigns to that material; the records are in the      *)
(* order the materials were read.                                          *)
C5_OneRecordPerMissingProfile ==
    pc \in {"loop", "done"} =>
        /\ Len(new_profiles) = Len(needing(passed))
        /\ \A k \in 1..Len(new_profiles) :
              LET m == needing(passed)[k]
              IN  /\ profile_key(new_profiles[k]) = m.id
                  /\ m.id \notin existing_profiles
                  /\ new_profiles[k] =
                        format_profile(m.id,
                            PROFILES[classify_material(m.name, m.description,
                                                       m.keywords)])

C5_Witness ==
    /\ pc = "done"
    /\ Len(materials) = 2
    /\ materials[1].id \in existing_profiles
    /\ materials[2].id \notin existing_profiles
    /\ Len(new_profiles) = 1
    /\ profile_key(new_profiles[1]) = materials[2].id

(* A word occurring in a field in any letter case.                         *)
same_letter(c, d) ==
    \/ c = d
    \/ \E k \in 1..Len(UPPERCASE) :
          {c, d} = {Char(UPPERCASE, k), Char(LOWERCASE, k)}

occurs_any_case(word, field) ==
    \E k \in 1..(Len(field) - Len(word) + 1) :
        \A j \in 1..Len(word) : same_letter(Char(field, k + j - 1), Char(word, j))

in_some_input(word, m) ==
    \/ occurs_any_case(word, m.name)
    \/ occurs_any_case(word, m.description)
    \/ \E k \in 1..Len(m.keywords) : occurs_any_case(word, m.keywords[k])

OakFlooring ==
    [id |-> "m1", name |-> "Oak Flooring", description |-> "solid oak boards",
     keywords |-> <<"wood", "flooring">>]

(* C6: a rule keyword occurring in the name, the description or a keyword, *)
(* in any letter case, makes that rule match, so the call returns that     *)
(* rule's category or an earlier rule's; "Oak Flooring" / "solid oak       *)
(* boards" / [wood, flooring] classifies as timber and its record has raw  *)
(* impact 1 with confidence high.                                          *)
C6_MatchesAnyInputAnyCase ==
    /\ pc = "lookup" =>
          /\ LET matched == matching(current_text)
             IN  \A r \in 1..Len(ClaimedOrder) :
                    \A a \in alternatives_of(pattern_of(ClaimedOrder[r])) :
                        in_some_input(a, current) =>
                            /\ r \in matched
                            /\ \E q \in 1..r : mat_type = ClaimedOrder[q]
          /\ current = OakFlooring => mat_type = "timber"
    /\ (pc \in {"loop", "done"} /\ new_profiles # <<>>
          /\ needing(passed)[Len(needing(passed))] = OakFlooring) =>
          read_record(new_profiles[Len(new_profiles)]).phases[1] =
              [phase |-> "raw", impact |-> 1, confidence |-> "high"]

C6_Witness ==
    /\ pc = "done"
    /\ materials = <<OakFlooring>>
    /\ mat_type = "timber"
    /\ Len(new_profiles) = 1
    /\ read_record(new_profiles[1]).phases[1] =
          [phase |-> "raw", impact |-> 1, confidence |-> "high"]

(* C6, the case of the letters: an upper-case keyword in the description   *)
(* alone decides the category.                                             *)
C6_WitnessUpperCase ==
    /\ pc = "lookup"
    /\ current.name = "widget"
    /\ current.description = "Glass and STEEL"
    /\ current.keywords = <<"">>
    /\ mat_type = "metal"

complete(profiles) == ReturnCategories \subseteq DOMAIN profiles

(* C7: the table is validated for completeness before any material is      *)
(* processed: with a category lacking a profile, the run is rejected       *)
(* before the first material is classified, not at a material's lookup.    *)
C7_TableValidatedAtStartup ==
    ~complete(table) =>
        /\ mat_type = "unset"
        /\ pc \notin {"lookup", "error"}

(* Whether the material at position k is one the run looks a profile up    *)
(* for, and whether the table has the entry.                               *)
category_at(k) ==
    classify_material(materials[k].name, materials[k].description,
                      materials[k].keywords)

lookup_misses(k) ==
    /\ materials[k].id \notin existing_profiles
    /\ category_at(k) \notin DOMAIN table

(* The state part of C8: where the run is, no lookup before it missed;     *)
(* at the failed lookup nothing was appended for the material.             *)
no_miss_before(n) == \A k \in 1..n : ~lookup_misses(k)

fatal_state ==
    /\ (pc = "error") =>
          (/\ lookup_misses(i)
           /\ no_miss_before(i - 1)
           /\ Len(new_profiles) = Len(needing(i - 1)))
    /\ (pc \in {"loop", "lookup"}) => no_miss_before(i - 1)
    /\ (pc = "done") => no_miss_before(Len(materials))

(* The step part of C8: a lookup of a missing category goes to the error   *)
(* and appends nothing, nothing follows the error, and the file changes    *)
(* only by the write-back that ends a run.                                 *)
fatal_step ==
    /\ (pc = "error") => UNCHANGED vars
    /\ (pc = "lookup" /\ mat_type \notin DOMAIN table) =>
          (pc' = "error" /\ new_profiles' = new_profiles)
    /\ (constants_ts' # constants_ts) => (pc' = "done")

(* C8: when the category of a material has no entry in the table, the      *)
(* lookup fails and the run ends there: no record is produced for that     *)
(* material from another profile, no later step runs, and constants.ts is  *)
(* not written, so it stays as it was read.                                *)
C8_MissingProfileIsFatal == []fatal_state /\ [][fatal_step]_vars

C8_Witness ==
    /\ pc = "error"
    /\ i = 2
    /\ Len(new_profiles) = 1
    /\ mat_type \notin DOMAIN table
    /\ constants_ts.profiles = existing_blocks(<<"widget", "legacy-brick">>)

(* C9: the category does not depend on the order of the keyword list: for  *)
(* every permutation of the keywords the call returns the same category;   *)
(* no rule pattern contains a space, the character the fields are joined   *)
(* by.                                                                     *)
C9_KeywordOrderIrrelevant ==
    pc = "lookup" =>
        /\ \A f \in Permutations(1..Len(current.keywords)) :
              classify_material(current.name, current.description,
                  [k \in 1..Len(current.keywords) |-> current.keywords[f[k]]])
                = mat_type
        /\ \A r \in 1..Len(RULE_PATTERNS) : ~occurs(" ", RULE_PATTERNS[r])

C9_Witness ==
    /\ pc = "lookup"
    /\ current.name = "widget"
    /\ current.description = ""
    /\ current.keywords = <<"cotta", "terra">>
    /\ mat_type = "concrete"

(* C10: no rule keyword is shadowed by an earlier rule: a material whose   *)
(* whole text is one keyword of a rule (empty description, no keywords)    *)
(* is classified into that rule's category.                                *)
C10_NoKeywordShadowed ==
    (/\ pc = "lookup"
     /\ current.description = ""
     /\ current.keywords \in {<<>>, <<"">>}) =>
        \A r \in 1..Len(ClaimedOrder) :
            current.name \in alternatives_of(pattern_of(ClaimedOrder[r])) =>
                mat_type = ClaimedOrder[r]

====
